---- MODULE Spec2Model ----
(***************************************************************************)
(* Model of langchain/src/chat_models/chatglm.ts: the ChatGLM chat model.  *)
(* One ChatGLM object is constructed and then used for calls to _generate  *)
(* and completion.  Every await of the source is an action boundary.       *)
(***************************************************************************)
EXTENDS Integers, Sequences, FiniteSets, TLC

\* ---------------------------------------------------------------- bounds
MaxLen == 2        \* longest message list handed to _generate
MaxChoices == 2    \* longest data.choices list in a response envelope

\* ------------------------------------------------------- program constants
DefaultExpSeconds == 3600

\* undefined of the source, for string-valued places
None == "undefined"

\* optional values: def = FALSE is undefined, val then holds a filler
Undef(filler) == [def |-> FALSE, val |-> filler]
Some(v) == [def |-> TRUE, val |-> v]

\* ------------------------------------------------------------ input sets
\* API keys are character sequences; <<>> is the empty string.
KeyFull == <<"i", ".", "s">>
KeyNoDot == <<"x">>
KeyEnv == <<"j", ".", "t">>
EmptyKey == <<>>
FieldsKeys == {Undef(<<>>), Some(EmptyKey), Some(KeyFull), Some(KeyNoDot)}
EnvKeys == {Undef(<<>>), Some(EmptyKey), Some(KeyEnv)}
FieldsExps == {Undef(0), Some(0), Some(2)}

\* Date.now() values in milliseconds, next to a rounding boundary and on one
NowValues == {1499, 2000}

\* BaseMessage values: type is _getType(), isChatMessage is
\* ChatMessage.isInstance(message), role is the custom role of a ChatMessage
Msg(t, c, inst, r) == [type |-> t, content |-> c, isChatMessage |-> inst, role |-> r]
Messages ==
  { Msg("ai", "c1", FALSE, None),
    Msg("human", "c2", FALSE, None),
    Msg("system", "c1", FALSE, None),
    Msg("function", "c2", FALSE, None),
    Msg("generic", "c1", TRUE, "assistant"),
    Msg("generic", "c2", TRUE, "user"),
    Msg("generic", "c3", TRUE, "tool"),
    Msg("generic", "c2", FALSE, None),
    Msg("tool", "c1", FALSE, None) }

RECURSIVE SeqsUpTo(_, _)
SeqsUpTo(S, n) ==
  IF n = 0 THEN { <<>> }
  ELSE LET shorter == SeqsUpTo(S, n - 1)
       IN shorter \cup { Append(s, x) : s \in { t \in shorter : Len(t) = n - 1 }, x \in S }

MessageLists == SeqsUpTo(Messages, MaxLen)

\* ------------------------------------------------------- vendor data types
\* type ChatGLMMessageRole = "assistant" | "user"
ChatGLMMessageRole == {"assistant", "user"}

\* interface ChatGLMMessage
ChatGLMMessage(r, c) == [role |-> r, content |-> c]

\* interface ChatCompletionRequest, as passed by direct callers of completion
DirectRequests == { <<>>, <<ChatGLMMessage("user", "c2")>> }

\* interface ChatCompletionResponse: data may be missing (the code reads it
\* with ?.), usage is optional
NoUsage == [def |-> FALSE, completion_tokens |-> 0, prompt_tokens |-> 0, total_tokens |-> 0]
SomeUsage == [def |-> TRUE, completion_tokens |-> 1, prompt_tokens |-> 2, total_tokens |-> 3]
ChoiceMessages == { ChatGLMMessage("assistant", "r1"), ChatGLMMessage("assistant", "r2") }
Envelope(d, ch, u) == [hasData |-> d, choices |-> ch, usage |-> u]
NoEnvelope == Envelope(FALSE, <<>>, NoUsage)
Envelopes ==
  { NoEnvelope } \cup
  { Envelope(TRUE, ch, u) : ch \in SeqsUpTo(ChoiceMessages, MaxChoices), u \in {NoUsage, SomeUsage} }

\* What fetch can resolve to: a response with a body that is valid JSON, a
\* response with a body that is not JSON, a response with a null body
HttpResponse(b, v, j) == [def |-> TRUE, hasBody |-> b, validJson |-> v, json |-> j]
NoResponse == [def |-> FALSE, hasBody |-> FALSE, validJson |-> FALSE, json |-> NoEnvelope]
Responses ==
  { HttpResponse(TRUE, TRUE, j) : j \in Envelopes } \cup
  { HttpResponse(TRUE, FALSE, NoEnvelope), HttpResponse(FALSE, FALSE, NoEnvelope) }

\* ------------------------------------------------------- errors
Err(m, a) == [msg |-> m, arg |-> a]
NoError == Err("", "")
TranslationErrors ==
  { "System messages should not be here", "Function messages not supported",
    "Invalid generic chat message", "Unknown message type: " }

\* ------------------------------------------------------- pure functions
\* variant: an unrecognized custom role is refused instead of logged
extractGenericMessageCustomRoleThrows(message) ==
  IF message.role /= "assistant" /\ message.role /= "user"
  THEN [role |-> None, warn |-> <<>>, error |-> Err("Unknown message role: ", message.role)]
  ELSE [role |-> message.role, warn |-> <<>>, error |-> NoError]

\* extractGenericMessageCustomRole: warns on a role outside the closed set,
\* returns the role unchanged (the cast does nothing at run time)
extractGenericMessageCustomRole(message) ==
  [ role |-> message.role,
    warn |-> IF message.role /= "assistant" /\ message.role /= "user"
             THEN <<message.role>> ELSE <<>>,
    error |-> NoError ]

Thrown(m, a) == [role |-> None, warn |-> <<>>, error |-> Err(m, a)]
Returned(r) == [role |-> r, warn |-> <<>>, error |-> NoError]

\* variant: the two role strings exchanged
messageToChatGLMRoleSwapped(message) ==
  CASE message.type = "ai" -> Returned("user")
    [] message.type = "human" -> Returned("assistant")
    [] message.type = "system" -> Thrown("System messages should not be here", "")
    [] message.type = "function" -> Thrown("Function messages not supported", "")
    [] message.type = "generic" ->
         IF ~message.isChatMessage
         THEN Thrown("Invalid generic chat message", "")
         ELSE extractGenericMessageCustomRole(message)
    [] OTHER -> Thrown("Unknown message type: ", message.type)

\* messageToChatGLMRole: the switch over message._getType()
messageToChatGLMRole(message) ==
  CASE message.type = "ai" -> Returned("assistant")
    [] message.type = "human" -> Returned("user")
    [] message.type = "system" -> Thrown("System messages should not be here", "")
    [] message.type = "function" -> Thrown("Function messages not supported", "")
    [] message.type = "generic" ->
         IF ~message.isChatMessage
         THEN Thrown("Invalid generic chat message", "")
         ELSE extractGenericMessageCustomRole(message)
    [] OTHER -> Thrown("Unknown message type: ", message.type)

\* variant: a message the translator throws on is dropped from the prompt
RECURSIVE MapMessagesSkipping(_, _, _)
MapMessagesSkipping(messages, mapped, warned) ==
  IF messages = <<>>
  THEN [prompt |-> mapped, warn |-> warned, error |-> NoError]
  ELSE LET r == messageToChatGLMRole(Head(messages))
       IN IF r.error /= NoError
          THEN MapMessagesSkipping(Tail(messages), mapped, warned \o r.warn)
          ELSE MapMessagesSkipping(Tail(messages),
                                   Append(mapped, ChatGLMMessage(r.role, Head(messages).content)),
                                   warned \o r.warn)

\* messages.map(...) of _generate, left to right: the first throw ends the
\* map and messagesMapped is never assigned; warnings emitted before the
\* throw stay emitted
RECURSIVE MapMessages(_, _, _)
MapMessages(messages, mapped, warned) ==
  IF messages = <<>>
  THEN [prompt |-> mapped, warn |-> warned, error |-> NoError]
  ELSE LET r == messageToChatGLMRole(Head(messages))
       IN IF r.error /= NoError
          THEN [prompt |-> <<>>, warn |-> warned \o r.warn, error |-> r.error]
          ELSE MapMessages(Tail(messages),
                           Append(mapped, ChatGLMMessage(r.role, Head(messages).content)),
                           warned \o r.warn)

\* variant: || in place of ??, an empty fields value falls through to the
\* environment
ConstructorKeyOr(fieldsKey, envKey) ==
  IF fieldsKey.def /\ fieldsKey.val /= <<>> THEN fieldsKey ELSE envKey

\* fields?.chatGLMApiKey ?? getEnvironmentVariable("CHATGLM_API_KEY")
ConstructorKey(fieldsKey, envKey) == IF fieldsKey.def THEN fieldsKey ELSE envKey

\* fields?.expSeconds ?? this.expSeconds
ConstructorExp(fieldsExp, current) == IF fieldsExp.def THEN fieldsExp.val ELSE current

\* String.prototype.split("."): the segments between the dots
RECURSIVE Split(_, _, _)
Split(chars, segment, segments) ==
  IF chars = <<>> THEN Append(segments, segment)
  ELSE IF Head(chars) = "." THEN Split(Tail(chars), <<>>, Append(segments, segment))
  ELSE Split(Tail(chars), Append(segment, Head(chars)), segments)

\* Math.round(ms / 1000) for a non-negative ms
RoundSeconds(ms) == (ms + 500) \div 1000

\* the payload and header literals of _getJWTToken; now1 and now2 are the two
\* reads of Date.now(), in evaluation order
JWTPayload(apiKey, exp, now1, now2) ==
  [ api_key |-> Split(apiKey, <<>>, <<>>)[1],
    exp |-> RoundSeconds(now1) + exp * 1000,
    timestamp |-> RoundSeconds(now2) ]

JWTHeader == [alg |-> "HS256", sign_type |-> "SIGN"]

\* const [id, secret] = ...; new TextEncoder().encode(secret): an undefined
\* secret encodes as the empty byte string
JWTSecret(apiKey) ==
  LET parts == Split(apiKey, <<>>, <<>>)
  IN IF Len(parts) >= 2 THEN parts[2] ELSE <<>>

\* variant: the two accept values exchanged
AcceptHeaderSwapped(stream) == IF stream THEN "application/json" ELSE "text/event-stream"

\* the accept header of completion
AcceptHeader(stream) == IF stream THEN "text/event-stream" ELSE "application/json"

\* variant: the last choice in place of the first
LastChoiceContent(result) ==
  IF ~result.hasData THEN None
  ELSE IF Len(result.choices) = 0 THEN None
  ELSE result.choices[Len(result.choices)].content

\* result.data?.choices[0]?.content
FirstChoiceContent(result) ==
  IF ~result.hasData THEN None
  ELSE IF Len(result.choices) = 0 THEN None
  ELSE result.choices[1].content

\* result.data?.usage
TokenUsage(result) == IF ~result.hasData THEN NoUsage ELSE result.usage

\* ------------------------------------------------------------- state
VARIABLES
  pc,             \* where the object and its current call are
  fields,         \* the constructor argument: chatGLMApiKey?, expSeconds?
  env,            \* getEnvironmentVariable("CHATGLM_API_KEY")
  chatGLMApiKey,  \* this.chatGLMApiKey
  expSeconds,     \* this.expSeconds
  caller,         \* the entry point of the current call
  messages,       \* the argument of _generate
  signal,         \* whether the call carries an AbortSignal
  stream,         \* the stream argument of completion
  request,        \* the request argument of completion: its prompt
  warnings,       \* what console.warn printed during the current call
  payload,        \* the payload built by _getJWTToken
  requests,       \* the fetch calls of the current call, in order
  response,       \* what fetch resolved to
  result,         \* what completion resolved to
  chatResult,     \* what _generate resolved to
  error           \* what the constructor threw or the call rejected with

vars == << pc, fields, env, chatGLMApiKey, expSeconds, caller, messages, signal,
           stream, request, warnings, payload, requests, response, result,
           chatResult, error >>

object == << fields, env, chatGLMApiKey, expSeconds >>

NoPayload == [def |-> FALSE, api_key |-> <<>>, exp |-> 0, timestamp |-> 0]
NoResult == [kind |-> "none", json |-> NoEnvelope]
NoChatResult == [def |-> FALSE, generations |-> <<>>, llmOutput |-> [tokenUsage |-> NoUsage]]

\* the signed token: what the signature covers and the key it was made with
Token(p, secret) == [header |-> JWTHeader, payload |-> p, secret |-> secret]

\* no call in progress: the per-call state a new call starts from
CallCleared ==
  /\ caller' = "none"
  /\ messages' = <<>>
  /\ signal' = FALSE
  /\ stream' = FALSE
  /\ request' = <<>>
  /\ warnings' = <<>>
  /\ payload' = NoPayload
  /\ requests' = <<>>
  /\ response' = NoResponse
  /\ result' = NoResult
  /\ chatResult' = NoChatResult
  /\ error' = NoError

\* before `new ChatGLM(fields)`: the field initializers have their values
Init ==
  /\ pc = "new"
  /\ fields \in [chatGLMApiKey : FieldsKeys, expSeconds : FieldsExps]
  /\ env \in EnvKeys
  /\ chatGLMApiKey = <<>>
  /\ expSeconds = DefaultExpSeconds
  /\ caller = "none"
  /\ messages = <<>>
  /\ signal = FALSE
  /\ stream = FALSE
  /\ request = <<>>
  /\ warnings = <<>>
  /\ payload = NoPayload
  /\ requests = <<>>
  /\ response = NoResponse
  /\ result = NoResult
  /\ chatResult = NoChatResult
  /\ error = NoError

\* constructor(fields)
Constructor ==
  /\ pc = "new"
  /\ LET key == ConstructorKey(fields.chatGLMApiKey, env)
     IN IF ~key.def \/ key.val = <<>>
        THEN /\ pc' = "threw"
             /\ error' = Err("ChatGLM API key not found", "")
             /\ UNCHANGED << chatGLMApiKey, expSeconds >>
        ELSE /\ pc' = "idle"
             /\ chatGLMApiKey' = key.val
             /\ expSeconds' = ConstructorExp(fields.expSeconds, expSeconds)
             /\ error' = NoError
  /\ UNCHANGED << fields, env, caller, messages, signal, stream, request, warnings,
                  payload, requests, response, result, chatResult >>

\* completion up to its first await: _getJWTToken builds the payload from two
\* reads of the clock and awaits jwt.sign
CompletionEnter(req, str, now1, now2) ==
  /\ request' = req
  /\ stream' = str
  /\ payload' = [def |-> TRUE] @@ JWTPayload(chatGLMApiKey, expSeconds, now1, now2)
  /\ pc' = "signing"

\* _generate(messages, options) up to its first await: map the messages,
\* then call completion({prompt: messagesMapped}, false, options.signal)
Generate ==
  /\ pc = "idle"
  /\ \E msgs \in MessageLists, sig \in BOOLEAN, now1 \in NowValues, now2 \in {0, 1} :
       LET mapped == MapMessages(msgs, <<>>, <<>>)
       IN /\ caller' = "_generate"
          /\ messages' = msgs
          /\ signal' = sig
          /\ warnings' = mapped.warn
          /\ IF mapped.error /= NoError
             THEN /\ pc' = "rejected"
                  /\ error' = mapped.error
                  /\ UNCHANGED << request, stream, payload >>
             ELSE /\ CompletionEnter(mapped.prompt, FALSE, now1, now1 + now2)
                  /\ error' = NoError
  /\ UNCHANGED << object, requests, response, result, chatResult >>

\* completion(request, stream, signal) called directly
Completion ==
  /\ pc = "idle"
  /\ \E req \in DirectRequests, str \in BOOLEAN, sig \in BOOLEAN,
        now1 \in NowValues, now2 \in {0, 1} :
       /\ caller' = "completion"
       /\ signal' = sig
       /\ CompletionEnter(req, str, now1, now1 + now2)
  /\ UNCHANGED << object, messages, warnings, requests, response, result, chatResult, error >>

\* jwt.sign resolves; completion calls fetch and awaits the response
Fetch ==
  /\ pc = "signing"
  /\ requests' = Append(requests,
       [ url |-> "https://open.bigmodel.cn/api/paas/v3/model-api/chatglm_turbo/invoke",
         method |-> "POST",
         Authorization |-> Token([k \in DOMAIN payload \ {"def"} |-> payload[k]],
                                 JWTSecret(chatGLMApiKey)),
         accept |-> AcceptHeader(stream),
         contentType |-> "application/json",
         body |-> [prompt |-> request],
         signal |-> signal ])
  /\ pc' = "fetching"
  /\ UNCHANGED << object, caller, messages, signal, stream, request, warnings, payload,
                  response, result, chatResult, error >>

\* jwt.sign rejects: an empty secret is refused by some runtimes
SignReject ==
  /\ pc = "signing"
  /\ JWTSecret(chatGLMApiKey) = <<>>
  /\ pc' = "rejected"
  /\ error' = Err("sign", "")
  /\ UNCHANGED << object, caller, messages, signal, stream, request, warnings, payload,
                  requests, response, result, chatResult >>

\* the lines of completion after `await fetch`: with stream the body is
\* wrapped when there is one and nothing is returned when there is none;
\* without stream response.json() is awaited
FetchResolve ==
  /\ pc = "fetching"
  /\ \E resp \in Responses :
       /\ response' = resp
       /\ IF stream
          THEN /\ pc' = "resolved"
               /\ result' = IF resp.hasBody
                            THEN [kind |-> "stream", json |-> NoEnvelope]
                            ELSE [kind |-> "undefined", json |-> NoEnvelope]
          ELSE /\ pc' = "parsing"
               /\ UNCHANGED result
  /\ UNCHANGED << object, caller, messages, signal, stream, request, warnings, payload,
                  requests, chatResult, error >>

\* variant: a failed fetch is retried with a fresh token
FetchRejectRetry ==
  /\ pc = "fetching"
  /\ \E reason \in {"TypeError", "AbortError"} :
       /\ reason = "AbortError" => signal
       /\ error' = Err("fetch", reason)
  /\ pc' = "signing"
  /\ UNCHANGED << object, caller, messages, signal, stream, request, warnings, payload,
                  requests, response, result, chatResult >>

\* fetch rejects: a network failure, or an abort through the caller's signal
FetchReject ==
  /\ pc = "fetching"
  /\ \E reason \in {"TypeError", "AbortError"} :
       /\ reason = "AbortError" => signal
       /\ error' = Err("fetch", reason)
  /\ pc' = "rejected"
  /\ UNCHANGED << object, caller, messages, signal, stream, request, warnings, payload,
                  requests, response, result, chatResult >>

\* response.json() resolves and completion returns the parsed body
JsonResolve ==
  /\ pc = "parsing"
  /\ response.validJson
  /\ result' = [kind |-> "json", json |-> response.json]
  /\ pc' = "resolved"
  /\ UNCHANGED << object, caller, messages, signal, stream, request, warnings, payload,
                  requests, response, chatResult, error >>

\* response.json() rejects: the body is not JSON, or the read is aborted
JsonReject ==
  /\ pc = "parsing"
  /\ \E reason \in {"SyntaxError", "AbortError"} :
       /\ reason = "SyntaxError" => ~response.validJson
       /\ reason = "AbortError" => signal
       /\ error' = Err("json", reason)
  /\ pc' = "rejected"
  /\ UNCHANGED << object, caller, messages, signal, stream, request, warnings, payload,
                  requests, response, result, chatResult >>

\* the lines of _generate after `await this.completion(...)`
GenerateReturn ==
  /\ pc = "resolved"
  /\ caller = "_generate"
  /\ LET text == FirstChoiceContent(result.json)
     IN chatResult' =
          [ def |-> TRUE,
            generations |-> << [text |-> text, message |-> [type |-> "ai", content |-> text]] >>,
            llmOutput |-> [tokenUsage |-> TokenUsage(result.json)] ]
  /\ pc' = "done"
  /\ UNCHANGED << object, caller, messages, signal, stream, request, warnings, payload,
                  requests, response, result, error >>

\* the caller of completion has its result
CompletionReturn ==
  /\ pc = "resolved"
  /\ caller = "completion"
  /\ pc' = "done"
  /\ UNCHANGED << object, caller, messages, signal, stream, request, warnings, payload,
                  requests, response, result, chatResult, error >>

\* the call is over (resolved or rejected): the object is ready for the next
NextCall ==
  /\ pc \in {"done", "rejected"}
  /\ pc' = "idle"
  /\ CallCleared
  /\ UNCHANGED object

Next ==
  \/ Constructor
  \/ Generate
  \/ Completion
  \/ Fetch
  \/ SignReject
  \/ FetchResolve
  \/ FetchReject
  \/ JsonResolve
  \/ JsonReject
  \/ GenerateReturn
  \/ CompletionReturn
  \/ NextCall

Spec == Init /\ [][Next]_vars

TypeOK ==
  /\ pc \in {"new", "threw", "idle", "signing", "fetching", "parsing", "resolved", "done", "rejected"}
  /\ caller \in {"none", "_generate", "completion"}
  /\ result.kind \in {"none", "stream", "json", "undefined"}

\* ------------------------------------------------------------ properties
\* a key value that is given and not the empty string
NonEmptyKey(k) == k.def /\ k.val /= <<>>

\* the constructor has run
Constructed == pc /= "new"

\* a _generate call is in progress or just over
InGenerate == caller = "_generate"

\* the messages the translator throws on: every type but ai and human, save a
\* generic message that is a ChatMessage
ThrowsOn(m) == m.type \notin {"ai", "human"} /\ ~(m.type = "generic" /\ m.isChatMessage)

\* what it throws there
ThrownFor(m) ==
  CASE m.type = "system" -> Err("System messages should not be here", "")
    [] m.type = "function" -> Err("Function messages not supported", "")
    [] m.type = "generic" -> Err("Invalid generic chat message", "")
    [] OTHER -> Err("Unknown message type: ", m.type)

\* the current _generate call was rejected by the translation
TranslationFailed == InGenerate /\ error.msg \in TranslationErrors

\* index of the first message the translator throws on, Len + 1 when none
FirstThrowing(msgs) ==
  IF \E i \in DOMAIN msgs : ThrowsOn(msgs[i])
  THEN CHOOSE i \in DOMAIN msgs : ThrowsOn(msgs[i]) /\ \A j \in 1..(i - 1) : ~ThrowsOn(msgs[j])
  ELSE Len(msgs) + 1

\* the custom roles console.warn is due for, in order, among the messages
\* translated before the first throw
UnknownRole(m) == m.type = "generic" /\ m.isChatMessage /\ m.role \notin ChatGLMMessageRole
ExpectedWarnings(msgs) ==
  LET unknown == SelectSeq(SubSeq(msgs, 1, FirstThrowing(msgs) - 1), UnknownRole)
  IN [i \in 1..Len(unknown) |-> unknown[i].role]

\* C1 (as stated): the constructor throws "ChatGLM API key not found" exactly
\* when neither the fields value nor the environment value is a non-empty
\* key; otherwise chatGLMApiKey is the fields value when given, else the
\* environment value.
C1_ThrowsIffNoNonEmptyKey ==
  Constructed =>
    /\ (pc = "threw") <=> ~(NonEmptyKey(fields.chatGLMApiKey) \/ NonEmptyKey(env))
    /\ pc = "threw" => error = Err("ChatGLM API key not found", "")
    /\ pc /= "threw" =>
         chatGLMApiKey = IF fields.chatGLMApiKey.def THEN fields.chatGLMApiKey.val ELSE env.val

\* C1 (amended): the key is the fields value when one is given, the empty
\* string included, and the environment value only when none is given; the
\* constructor throws "ChatGLM API key not found" exactly when that key is
\* absent or empty, and otherwise stores it in chatGLMApiKey.
C1_ThrowsIffSelectedKeyEmpty ==
  Constructed =>
    LET selected == IF fields.chatGLMApiKey.def THEN fields.chatGLMApiKey ELSE env
    IN /\ (pc = "threw") <=> ~NonEmptyKey(selected)
       /\ pc = "threw" => error = Err("ChatGLM API key not found", "")
       /\ pc /= "threw" => chatGLMApiKey = selected.val

\* an empty fields key hides a usable environment key: the constructor threw
C1_Witness ==
  /\ pc = "threw"
  /\ error.msg = "ChatGLM API key not found"
  /\ fields.chatGLMApiKey = Some(EmptyKey)
  /\ env = Some(KeyEnv)

\* C2 (as stated): ai maps to assistant, human maps to user, and a message of
\* any other type (system, function, generic, unknown) makes the translation
\* throw.
C2_ThrowsOnEveryOtherType ==
  InGenerate =>
    /\ (\E i \in DOMAIN messages : messages[i].type \notin {"ai", "human"}) => TranslationFailed
    /\ ~TranslationFailed =>
         \A i \in DOMAIN messages :
           /\ messages[i].type = "ai" => request[i].role = "assistant"
           /\ messages[i].type = "human" => request[i].role = "user"

\* C2 (amended): ai maps to assistant, human maps to user, a generic message
\* that is a ChatMessage maps to its own custom role, and the translation
\* throws for every other message (system, function, a generic message that
\* is not a ChatMessage, an unknown type), with the error of the first such
\* message.
C2_RoleMapping ==
  InGenerate =>
    /\ TranslationFailed <=> \E i \in DOMAIN messages : ThrowsOn(messages[i])
    /\ TranslationFailed => error = ThrownFor(messages[FirstThrowing(messages)])
    /\ ~TranslationFailed =>
         /\ Len(request) = Len(messages)
         /\ \A i \in DOMAIN messages :
              /\ messages[i].type = "ai" => request[i].role = "assistant"
              /\ messages[i].type = "human" => request[i].role = "user"
              /\ messages[i].type = "generic" => request[i].role = messages[i].role

\* an ai, human or generic ChatMessage list was translated without a throw,
\* a generic one among them
C2_Witness ==
  /\ InGenerate
  /\ pc = "signing"
  /\ Len(messages) = MaxLen
  /\ messages[1].type = "generic"
  /\ messages[MaxLen].type = "human"

\* C3: every prompt entry of every request _generate hands to completion and
\* on to the endpoint has a role in {assistant, user}.
C3_PromptRolesClosed ==
  InGenerate =>
    /\ \A j \in DOMAIN request : request[j].role \in ChatGLMMessageRole
    /\ \A i \in DOMAIN requests :
         \A j \in DOMAIN requests[i].body.prompt :
           requests[i].body.prompt[j].role \in ChatGLMMessageRole

\* C4: a generic ChatMessage with a custom role outside {assistant, user} is
\* warned about and not thrown on, its role goes into the prompt as is and
\* the call goes on into completion; one with role assistant or user is not
\* warned about.
C4_UnknownRoleWarnsOnly ==
  InGenerate =>
    /\ warnings = ExpectedWarnings(messages)
    /\ (\A i \in DOMAIN messages : messages[i].type = "generic" /\ messages[i].isChatMessage) =>
         /\ ~TranslationFailed
         /\ payload.def
         /\ \A i \in DOMAIN messages : request[i].role = messages[i].role
         /\ pc \notin {"signing", "rejected"} =>
              /\ Len(requests) = 1
              /\ \A i \in DOMAIN messages : requests[1].body.prompt[i].role = messages[i].role

\* a request went out carrying the unrecognized role, after one warning
C4_Witness ==
  /\ InGenerate
  /\ warnings = <<"tool">>
  /\ Len(requests) = 1
  /\ \E j \in DOMAIN requests[1].body.prompt : requests[1].body.prompt[j].role = "tool"

\* C5: the token is signed with HS256 and expires expSeconds after it is
\* issued: exp - timestamp = expSeconds, expSeconds being the caller's value
\* when given and 3600 otherwise.
C5_ExpiryWindow ==
  \A i \in DOMAIN requests :
    LET token == requests[i].Authorization
    IN /\ token.header.alg = "HS256"
       /\ expSeconds = IF fields.expSeconds.def THEN fields.expSeconds.val ELSE DefaultExpSeconds
       /\ token.payload.exp - token.payload.timestamp = expSeconds

\* C6: every request is a POST whose accept header is text/event-stream
\* exactly when stream is true and application/json exactly when it is
\* false; a request of _generate has accept application/json.
C6_AcceptFollowsStream ==
  \A i \in DOMAIN requests :
    /\ requests[i].method = "POST"
    /\ (requests[i].accept = "text/event-stream") <=> stream
    /\ (requests[i].accept = "application/json") <=> ~stream
    /\ InGenerate => requests[i].accept = "application/json"

\* a streaming request went out
C6_Witness ==
  /\ caller = "completion"
  /\ stream
  /\ Len(requests) = 1
  /\ requests[1].accept = "text/event-stream"

\* C7: whenever completion resolves, the result is the byte stream when
\* stream is true and the parsed JSON body when stream is false, never
\* neither.
C7_ResultByStreamFlag ==
  pc \in {"resolved", "done"} =>
    /\ stream => result.kind = "stream"
    /\ ~stream => result.kind = "json"

\* C8: a _generate call issues at most one request; when the fetch fails
\* (network failure, or abort through the caller's signal) the call is
\* rejected with that failure, has no ChatResult and no second request.
C8_NoRetry ==
  /\ Len(requests) <= 1
  /\ ~InGenerate => ~chatResult.def
  /\ error.msg = "fetch" =>
       /\ pc = "rejected"
       /\ Len(requests) = 1
       /\ ~response.def
       /\ ~chatResult.def
       /\ error.arg = "AbortError" => signal

\* a _generate call was aborted through its signal and stands rejected
C8_Witness ==
  /\ InGenerate
  /\ pc = "rejected"
  /\ error = Err("fetch", "AbortError")
  /\ Len(requests) = 1

\* C9: _generate returns exactly one generation whose text and message
\* content are the content of the first entry of data.choices of the response
\* (undefined when there is none), and llmOutput.tokenUsage is data.usage
\* (undefined when the response has none).
C9_ResultFromFirstChoice ==
  (InGenerate /\ pc = "done") =>
    LET body == response.json
        first == IF body.hasData /\ body.choices /= <<>> THEN Head(body.choices).content ELSE None
    IN /\ chatResult.def
       /\ Len(chatResult.generations) = 1
       /\ chatResult.generations[1].text = first
       /\ chatResult.generations[1].message = [type |-> "ai", content |-> first]
       /\ chatResult.llmOutput.tokenUsage = IF body.hasData THEN body.usage ELSE NoUsage

\* a result was built from a response with two different choices and usage
C9_Witness ==
  /\ InGenerate
  /\ pc = "done"
  /\ Len(response.json.choices) >= 2
  /\ response.json.choices[1].content /= response.json.choices[2].content
  /\ response.json.usage.def
  /\ chatResult.def

\* C10: when any message of the list is one the translator throws on,
\* _generate is rejected with no token payload built and no request issued;
\* otherwise the prompt of the request has the length, order and contents of
\* the message list.
C10_TranslateBeforeContact ==
  InGenerate =>
    /\ (\E i \in DOMAIN messages : messageToChatGLMRole(messages[i]).error /= NoError) =>
         /\ pc = "rejected"
         /\ ~payload.def
         /\ requests = <<>>
         /\ ~response.def
    /\ \A i \in DOMAIN requests :
         /\ Len(requests[i].body.prompt) = Len(messages)
         /\ \A j \in DOMAIN messages : requests[i].body.prompt[j].content = messages[j].content

\* a list whose last message throws, after one that translates, was rejected
C10_Witness ==
  /\ InGenerate
  /\ pc = "rejected"
  /\ error.msg \in TranslationErrors
  /\ Len(messages) = MaxLen
  /\ messages[1].type = "ai"
  /\ requests = <<>>

====
